---------------------------- MODULE Spec2Model ----------------------------
(***************************************************************************)
(* vaultlint: the folder-structure validator of struct_validator.py.       *)
(*                                                                         *)
(* A run loads a YAML document (spec_dict), parses it with parse_spec into *)
(* (GlobalSettings, synthetic root DirNode) or fails with SpecError, and   *)
(* then walks the tree with validate_tree against the file system under    *)
(* target_root, appending Issues.  The file system is the environment: the *)
(* answer of every exists()/is_dir()/iterdir() call is drawn when the call *)
(* is made and remembered in fs, so the file system never changes during a *)
(* run.                                                                    *)
(***************************************************************************)
EXTENDS Naturals, Sequences, FiniteSets, TLC

(***************************************************************************)
(* YAML values as yaml.safe_load returns them, tagged with their Python    *)
(* type: bool, str, int, None, list, dict.                                 *)
(***************************************************************************)
Bool(b) == [t |-> "bool", v |-> b]
Str(s) == [t |-> "str", v |-> s]
Int(i) == [t |-> "int", v |-> i]
Null == [t |-> "null"]
List(s) == [t |-> "list", v |-> s]
Dict(d) == [t |-> "dict", v |-> d]

\* d with key k dropped / set to v (building the input documents)
Drop(d, k) == [x \in DOMAIN d \ {k} |-> d[x]]
Put(d, k, v) == [x \in DOMAIN d \cup {k} |-> IF x = k THEN v ELSE d[x]]

\* isinstance(val, bool), isinstance(val, str), isinstance(val, list), ...
IsInstance(val, ty) == val.t = ty

\* Python's bool(x): the truth value of a YAML value
PyBool(val) ==
    CASE val.t = "bool" -> val.v
      [] val.t = "str" -> val.v # ""
      [] val.t = "int" -> val.v # 0
      [] val.t = "null" -> FALSE
      [] val.t = "list" -> val.v # <<>>
      [] val.t = "dict" -> DOMAIN val.v # {}

\* d.get(key, default)
DictGet(d, key, default) == IF key \in DOMAIN d THEN d[key] ELSE default

(***************************************************************************)
(* Data model.  Optional[bool] is <<>> (None) or <<b>>.                    *)
(***************************************************************************)
Unset == <<>>
Some(b) == <<b>>

GlobalSettings(allow_extra_dirs, allow_extra_files) ==
    [allow_extra_dirs |-> allow_extra_dirs, allow_extra_files |-> allow_extra_files]

\* a node built from the base class: it has no kind the walk knows
BaseNode_only(name, optional) ==
    [kind |-> "base", name |-> name, optional |-> optional]

FileNode(name, optional) ==
    [kind |-> "file", name |-> name, optional |-> optional]

DirNode(name, optional, allow_extra_dirs, allow_extra_files, children) ==
    [kind |-> "dir", name |-> name, optional |-> optional,
     allow_extra_dirs |-> allow_extra_dirs,
     allow_extra_files |-> allow_extra_files,
     children |-> children]

effective_allow_dirs(self, globals) ==
    IF self.allow_extra_dirs # Unset
    THEN self.allow_extra_dirs[1]
    ELSE globals.allow_extra_dirs

effective_allow_files(self, globals) ==
    IF self.allow_extra_files # Unset
    THEN self.allow_extra_files[1]
    ELSE globals.allow_extra_files

(***************************************************************************)
(* Spec parsing.  A function that may raise SpecError returns Ok(value) or *)
(* SpecError(message); a caller that does not catch passes the error on.   *)
(***************************************************************************)
Ok(val) == [ok |-> TRUE, val |-> val]
SpecError(msg) == [ok |-> FALSE, err |-> msg]

\* a require_bool that defaults an absent key to false instead of None
require_bool_defaulting(d, key, default) ==
    IF key \notin DOMAIN d THEN Ok(Some(FALSE))
    ELSE IF IsInstance(d[key], "bool") THEN Ok(Some(d[key].v))
    ELSE SpecError("must be a boolean")

require_bool(d, key, default) ==
    IF key \notin DOMAIN d THEN Ok(default)
    ELSE IF IsInstance(d[key], "bool") THEN Ok(Some(d[key].v))
    ELSE SpecError("must be a boolean")

\* a require_str without the emptiness test
require_str_any(d, key) ==
    IF key \notin DOMAIN d THEN SpecError("Missing required field")
    ELSE IF IsInstance(d[key], "str") THEN Ok(d[key].v)
    ELSE SpecError("must be a non-empty string")

require_str(d, key) ==
    IF key \notin DOMAIN d THEN SpecError("Missing required field")
    ELSE IF IsInstance(d[key], "str") /\ d[key].v # "" THEN Ok(d[key].v)
    ELSE SpecError("must be a non-empty string")

optional_bool(d, key, default) ==
    LET val == DictGet(d, key, Bool(default))
    IN  IF IsInstance(val, "bool") THEN Ok(val.v)
        ELSE SpecError("must be a boolean")

RECURSIVE parse_node(_)
RECURSIVE parse_nodes(_)

\* [_parse_node(ch) for ch in children_raw]: the first failing item raises
parse_nodes(items) ==
    IF items = <<>> THEN Ok(<<>>)
    ELSE LET h == parse_node(Head(items))
         IN  IF ~h.ok THEN h
             ELSE LET r == parse_nodes(Tail(items))
                  IN  IF ~r.ok THEN r ELSE Ok(<<h.val>> \o r.val)

\* a test of a file mapping that forgets allow_extra_files
FileHasDirKeys_dirs_only(d) == "allow_extra_dirs" \in DOMAIN d

FileHasDirKeys(d) ==
    "allow_extra_dirs" \in DOMAIN d \/ "allow_extra_files" \in DOMAIN d

parse_dir(d, name, optional) ==
    LET allow_extra_dirs == require_bool(d, "allow_extra_dirs", Unset)
        allow_extra_files == require_bool(d, "allow_extra_files", Unset)
        got == DictGet(d, "children", List(<<>>))
        children_raw == IF IsInstance(got, "null") THEN List(<<>>) ELSE got
    IN  IF ~allow_extra_dirs.ok THEN allow_extra_dirs
        ELSE IF ~allow_extra_files.ok THEN allow_extra_files
        ELSE IF ~IsInstance(children_raw, "list")
        THEN SpecError("'children' must be a list")
        ELSE LET children == parse_nodes(children_raw.v)
             IN  IF ~children.ok THEN children
                 ELSE Ok(DirNode(name, optional, allow_extra_dirs.val,
                                 allow_extra_files.val, children.val))

parse_file(d, name, optional) ==
    IF "children" \in DOMAIN d THEN SpecError("File cannot have 'children'")
    ELSE IF FileHasDirKeys(d)
    THEN SpecError("File cannot set 'allow_extra_dirs' or 'allow_extra_files'")
    ELSE Ok(FileNode(name, optional))

parse_node(obj) ==
    IF ~IsInstance(obj, "dict") THEN SpecError("Each node must be a mapping")
    ELSE LET d == obj.v
             t == require_str(d, "type")
             name == require_str(d, "name")
             optional == optional_bool(d, "optional", FALSE)
         IN  IF ~t.ok THEN t
             ELSE IF ~name.ok THEN name
             ELSE IF ~optional.ok THEN optional
             ELSE IF t.val = "file" THEN parse_file(d, name.val, optional.val)
             ELSE IF t.val = "dir" THEN parse_dir(d, name.val, optional.val)
             ELSE SpecError("Unsupported node type")

TopLevelBool(d, key) == PyBool(DictGet(d, key, Bool(FALSE)))

parse_spec(spec_dict) ==
    IF ~IsInstance(spec_dict, "dict")
    THEN SpecError("Top-level spec must be a mapping")
    ELSE LET d == spec_dict.v
             globals == GlobalSettings(TopLevelBool(d, "allow_extra_dirs"),
                                       TopLevelBool(d, "allow_extra_files"))
             structure == DictGet(d, "structure", Null)
         IN  IF IsInstance(structure, "null") \/ ~IsInstance(structure, "list")
             THEN SpecError("Top-level 'structure' must be a list")
             ELSE LET children == parse_nodes(structure.v)
                  IN  IF ~children.ok THEN children
                      ELSE Ok([globals |-> globals,
                               root |-> DirNode("<root>", FALSE,
                                                Some(globals.allow_extra_dirs),
                                                Some(globals.allow_extra_files),
                                                children.val)])

(***************************************************************************)
(* Input documents.  Names of declared nodes and of directory entries are  *)
(* drawn from Names; the first declared child of a list is named "a" (the  *)
(* names are interchangeable).  A document holds at most MaxNodes node     *)
(* mappings, any of them optional, and at most MaxOverrides allow_extra_*  *)
(* keys on its nodes.                                                      *)
(***************************************************************************)
Names == {"a", "b"}
MaxNodes == 2
MaxOverrides == 1

RawNode(type, name) == [type |-> Str(type), name |-> Str(name)]

\* the ways to leave "optional" out or to set it
OptionalKeys == {<<>>, [optional |-> Bool(TRUE)]}

\* the ways to set exactly w of the two allow_extra_* keys
OverrideKeys(w) ==
    UNION {[K -> {Bool(TRUE), Bool(FALSE)}] :
             K \in {S \in SUBSET {"allow_extra_dirs", "allow_extra_files"} :
                      Cardinality(S) = w}}

RECURSIVE NodesExact(_, _, _)
RECURSIVE ListsExact(_, _, _)

\* node mappings of exactly k nodes (the node and its descendants) that set
\* exactly o allow_extra_* keys
NodesExact(k, o, names) ==
    LET files == IF k = 1 /\ o = 0
                 THEN {Dict(op @@ RawNode("file", n)) :
                         n \in names, op \in OptionalKeys}
                 ELSE {}
        childrenKeys(m, oc) ==
            IF m = 0 THEN (IF oc = 0 THEN {<<>>} ELSE {})
            ELSE {[children |-> List(l)] : l \in ListsExact(m, oc, TRUE)}
        dirs == UNION {{Dict(ch @@ ov @@ op @@ RawNode("dir", n)) :
                          n \in names, op \in OptionalKeys,
                          ov \in OverrideKeys(w),
                          ch \in childrenKeys(k - 1, o - w)} : w \in 0..o}
    IN  files \cup dirs

\* lists of node mappings of exactly n nodes and o allow_extra_* keys in all
ListsExact(n, o, first) ==
    IF n = 0 THEN (IF o = 0 THEN {<<>>} ELSE {})
    ELSE UNION {{<<x>> \o r :
                   x \in NodesExact(k, o1, IF first THEN {"a"} ELSE Names),
                   r \in ListsExact(n - k, o - o1, FALSE)} :
                k \in 1..n, o1 \in 0..o}

StructureLists ==
    UNION {ListsExact(n, o, TRUE) : n \in 0..MaxNodes, o \in 0..MaxOverrides}

\* the document with this structure list and these top-level defaults
\* (a default of FALSE leaves the key out)
Document(dirs, files, structure) ==
    LET d0 == [structure |-> List(structure)]
        d1 == IF dirs THEN Put(d0, "allow_extra_dirs", Bool(TRUE)) ELSE d0
        d2 == IF files THEN Put(d1, "allow_extra_files", Bool(TRUE)) ELSE d1
    IN  Dict(d2)

ValidDocuments ==
    {Document(ad, af, l) : ad \in BOOLEAN, af \in BOOLEAN,
                           l \in StructureLists}

(***************************************************************************)
(* Edited documents: a sample document with one key of one mapping (at any *)
(* depth) dropped or set to another value, or one mapping replaced by a    *)
(* scalar.  Most of them are malformed.                                    *)
(***************************************************************************)
NodeEdits(d) ==
    {Drop(d, "type"), Drop(d, "name"),
     Put(d, "type", Str("link")), Put(d, "type", Bool(TRUE)),
     Put(d, "name", Str("")), Put(d, "name", Int(1)),
     Put(d, "name", Str("/x")),
     Put(d, "optional", Str("yes")), Put(d, "optional", Null),
     Put(d, "optional", Bool(FALSE)),
     Put(d, "allow_extra_dirs", Str("no")), Put(d, "allow_extra_dirs", Null),
     Put(d, "allow_extra_files", Int(1)),
     Put(d, "allow_extra_files", Bool(FALSE)),
     Put(d, "children", Str("x")), Put(d, "children", Null),
     Put(d, "children", List(<<>>)),
     Put(Put(d, "children", Null), "allow_extra_dirs", Bool(FALSE))}

RECURSIVE EditedLists(_)
EditedNodes(node) ==
    {Str("x")} \cup {Dict(e) : e \in NodeEdits(node.v)} \cup
    (IF "children" \in DOMAIN node.v
     THEN {Dict(Put(node.v, "children", List(l))) :
             l \in EditedLists(node.v["children"].v)}
     ELSE {})
EditedLists(l) ==
    UNION {{[l EXCEPT ![i] = e] : e \in EditedNodes(l[i])} : i \in DOMAIN l}

TopEdits(d) ==
    {Drop(d, "structure"), Put(d, "structure", Null),
     Put(d, "structure", Str("x")), Put(d, "structure", Dict(<<>>)),
     Put(d, "allow_extra_dirs", Str("yes")), Put(d, "allow_extra_dirs", Int(0)),
     Put(d, "allow_extra_dirs", Bool(FALSE)),
     Put(d, "allow_extra_files", Str("")), Put(d, "allow_extra_files", Null),
     Put(d, "allow_extra_files", List(<<Bool(FALSE)>>))}

\* the sample: the structure lists without allow_extra_* keys
SampleLists == UNION {ListsExact(n, 0, TRUE) : n \in 0..MaxNodes}

EditedDocuments ==
    {Null, Str("x"), List(<<>>)} \cup
    {Document(FALSE, FALSE, e) : e \in UNION {EditedLists(l) : l \in SampleLists}}
    \cup
    {Dict(e) : e \in UNION {TopEdits(Document(FALSE, af, l).v) :
                              af \in BOOLEAN,
                              l \in {x \in SampleLists : Len(x) <= 1}}}

Documents == ValidDocuments \cup EditedDocuments

(***************************************************************************)
(* The validation engine.                                                  *)
(***************************************************************************)
VARIABLES
    spec_dict,    \* the loaded YAML document
    pc,           \* "start", "spec_error", "parsed", "walk", "done", "raised"
    parsed,       \* what parse_spec returned or raised
    collect_all,  \* validate_tree's flag
    issues,       \* validate_tree's local list of Issues
    stack,        \* the validate_dir frames, innermost last
    fs,           \* observed file system: path -> "none" | "file" | "dir"
    dirls,        \* observed directory listings: path -> outcome of iterdir()
    origin,       \* history: for each issue, the declaration that raised it
    calls,        \* history: the validate_dir calls made, by declaration
    listed,       \* history: the iterdir() calls made, by declaration
    other,        \* the other validate_tree call: its locals, or its result
    cli,          \* what the command-line run did: checker results, exit code
    spec_file,    \* the specification file on disk
    loaded        \* what load_spec returned or raised

vars == <<spec_dict, pc, parsed, collect_all, issues, stack, fs, dirls,
          origin, calls, listed, other, cli, spec_file, loaded>>

\* what parse_spec and validate_tree never touch
aux == <<other, cli, spec_file, loaded>>

target_root == <<"vault">>

Issue(path, code) == [path |-> path, code |-> code]

IsPrefix(base, p) ==
    Len(base) <= Len(p) /\ SubSeq(p, 1, Len(base)) = base

\* a path reported as it is
rel_as_is(base, p) == p

\* _rel: p relative to base, or p itself when it does not lie under base
rel(base, p) ==
    IF IsPrefix(base, p) THEN SubSeq(p, Len(base) + 1, Len(p)) ELSE p

\* an add_issue with a branch of its own for the stop-at-first-issue mode
add_issue_by_mode(p, code) ==
    Append(issues, Issue(IF collect_all THEN rel(target_root, p) ELSE p, code))

add_issue(p, code) == Append(issues, Issue(rel(target_root, p), code))

\* "path / child.name": a name that is an absolute path replaces the path
AbsNames == {"/x"}
Join(path, name) == IF name \in AbsNames THEN <<name>> ELSE path \o <<name>>

\* The frame of validate_dir(node, path, inherited) at its first line.  idx is
\* the declaration's position in the tree (child indices from the root).
Frame(node, idx, path, inherited) ==
    [node |-> node, idx |-> idx, path |-> path,
     allow_dirs |-> effective_allow_dirs(node, inherited),
     allow_files |-> effective_allow_files(node, inherited),
     at |-> "enter", i |-> 1, entries |-> <<>>]

\* {ch.key(): ch for ch in node.children}: a later child replaces an earlier one
expected_by_name(node) ==
    LET ch == node.children
        last(n) == CHOOSE k \in DOMAIN ch :
                      /\ ch[k].name = n
                      /\ \A j \in DOMAIN ch : ch[j].name = n => j <= k
    IN  [n \in {ch[k].name : k \in DOMAIN ch} |-> ch[last(n)]]

Top == stack[Len(stack)]
SetTop(f) == [stack EXCEPT ![Len(stack)] = f]
Pop == SubSeq(stack, 1, Len(stack) - 1)

\* a stop test that ignores collect_all
StopNow_always == TRUE

\* the stop-at-first-issue test after an add_issue: "if not collect_all: return"
StopNow == ~collect_all

\* The file system holds at most MaxEntries entries under target_root.
MaxEntries == 3
Entries == {q \in DOMAIN fs : q # target_root /\ fs[q] # "none"}

\* what exists()/is_dir() can answer for p: what was seen before, else anything
\* the file system has room for
Observe(p) ==
    IF p \in DOMAIN fs THEN {fs[p]}
    ELSE IF p # target_root /\ Cardinality(Entries) >= MaxEntries THEN {"none"}
    ELSE {"none", "file", "dir"}
Seen(p, st) == IF p \in DOMAIN fs THEN fs ELSE (p :> st) @@ fs

Perms(S) ==
    {s \in [1..Cardinality(S) -> S] : \A i, j \in DOMAIN s : s[i] = s[j] => i = j}

\* what list(path.iterdir()) can do: raise PermissionError, raise another
\* OSError, or return the entries (in any order) of a content that agrees
\* with what was seen
ListOutcomes(p) ==
    IF p \in DOMAIN dirls THEN {dirls[p]}
    ELSE {[res |-> "PermissionError"], [res |-> "OSError"]} \cup
         UNION {{[res |-> "ok", content |-> c, entries |-> e] :
                   e \in Perms({n \in Names : c[n] # "none"})} :
                c \in {f \in [Names -> {"none", "file", "dir"}] :
                         /\ \A n \in Names : p \o <<n>> \in DOMAIN fs
                                                => f[n] = fs[p \o <<n>>]
                         /\ Cardinality(Entries) + Cardinality(
                              {n \in Names : p \o <<n>> \notin DOMAIN fs
                                             /\ f[n] # "none"}) <= MaxEntries}}

\* the file system after a listing showed content c of directory p
SeenAll(p, c) ==
    [q \in DOMAIN fs \cup {p \o <<n>> : n \in Names} |->
        IF q \in DOMAIN fs THEN fs[q] ELSE c[q[Len(q)]]]

Init ==
    /\ spec_dict \in Documents
    /\ pc = "start"
    /\ parsed = SpecError("not parsed")
    /\ collect_all = TRUE
    /\ issues = <<>>
    /\ stack = <<>>
    /\ fs = <<>>
    /\ dirls = <<>>
    /\ origin = <<>>
    /\ calls = <<>>
    /\ listed = <<>>
    /\ other = <<>>
    /\ cli = <<>>
    /\ spec_file = <<>>
    /\ loaded = <<>>

\* globals_, root = parse_spec(spec_dict)
ParseSpec ==
    /\ pc = "start"
    /\ parsed' = parse_spec(spec_dict)
    /\ pc' = IF parsed'.ok THEN "parsed" ELSE "spec_error"
    /\ UNCHANGED aux
    /\ UNCHANGED <<spec_dict, collect_all, issues, stack, fs, dirls, origin,
                   calls, listed>>

\* an accumulator that outlives the call
NewIssueList_kept == issues

\* "issues: List[Issue] = []": each call starts with a list of its own
NewIssueList == <<>>

\* validate_tree(target_root, globals_, root, collect_all): the kick-off
ValidateTree ==
    /\ pc = "parsed"
    /\ \E ca \in BOOLEAN : collect_all' = ca
    /\ issues' = NewIssueList
    /\ stack' = <<Frame(parsed.val.root, <<>>, target_root, parsed.val.globals)>>
    /\ calls' = <<<<>>>>
    /\ pc' = "walk"
    /\ UNCHANGED aux
    /\ UNCHANGED <<spec_dict, parsed, fs, dirls, origin, listed>>

\* a return of the innermost validate_dir; the outermost one ends validate_tree
Return ==
    /\ stack' = Pop
    /\ pc' = IF Len(stack) = 1 THEN "done" ELSE "walk"

\* a missing-directory test that ignores "optional"
MissingDirIssue_always(node) == "MISSING_DIR"

\* a missing-directory test that reports nothing
MissingDirIssue_never(node) == ""

\* the issue validate_dir raises for a path that does not exist
MissingDirIssue(node) == IF node.optional THEN "" ELSE "MISSING_DIR"

\* validate_dir, "if not path.exists()": nothing for an optional node, else
\* MISSING_DIR; return either way
DirMissing ==
    /\ pc = "walk" /\ Top.at = "enter"
    /\ "none" \in Observe(Top.path)
    /\ fs' = Seen(Top.path, "none")
    /\ IF MissingDirIssue(Top.node) = ""
       THEN UNCHANGED <<issues, origin>>
       ELSE /\ issues' = add_issue(Top.path, MissingDirIssue(Top.node))
            /\ origin' = Append(origin, Top.idx)
    /\ Return
    /\ UNCHANGED aux
    /\ UNCHANGED <<spec_dict, parsed, collect_all, dirls, calls, listed>>

\* a validate_dir that reports the non-directory and goes on to the children
DirNotDir_descending ==
    /\ pc = "walk" /\ Top.at = "enter"
    /\ "file" \in Observe(Top.path)
    /\ fs' = Seen(Top.path, "file")
    /\ issues' = add_issue(Top.path, "TYPE_MISMATCH")
    /\ origin' = Append(origin, Top.idx)
    /\ stack' = SetTop([Top EXCEPT !.at = "children"])
    /\ UNCHANGED aux
    /\ UNCHANGED <<spec_dict, pc, parsed, collect_all, dirls, calls, listed>>

\* validate_dir, "if not path.is_dir()": TYPE_MISMATCH and return
DirNotDir ==
    /\ pc = "walk" /\ Top.at = "enter"
    /\ "file" \in Observe(Top.path)
    /\ fs' = Seen(Top.path, "file")
    /\ issues' = add_issue(Top.path, "TYPE_MISMATCH")
    /\ origin' = Append(origin, Top.idx)
    /\ Return
    /\ UNCHANGED aux
    /\ UNCHANGED <<spec_dict, parsed, collect_all, dirls, calls, listed>>

\* a validate_dir that stores the policy it resolved in the node, for the
\* nodes declared at the top of the structure
DirEnter_resolving ==
    /\ pc = "walk" /\ Top.at = "enter"
    /\ "dir" \in Observe(Top.path)
    /\ fs' = Seen(Top.path, "dir")
    /\ stack' = SetTop([Top EXCEPT !.at = "children"])
    /\ parsed' = IF Len(Top.idx) = 1
                 THEN [parsed EXCEPT
                         !.val.root.children[Top.idx[1]].allow_extra_dirs =
                             Some(Top.allow_dirs),
                         !.val.root.children[Top.idx[1]].allow_extra_files =
                             Some(Top.allow_files)]
                 ELSE parsed
    /\ UNCHANGED aux
    /\ UNCHANGED <<spec_dict, pc, collect_all, issues, dirls, origin,
                   calls, listed>>

\* validate_dir, path is a directory: go on to the declared children
DirEnter ==
    /\ pc = "walk" /\ Top.at = "enter"
    /\ "dir" \in Observe(Top.path)
    /\ fs' = Seen(Top.path, "dir")
    /\ stack' = SetTop([Top EXCEPT !.at = "children"])
    /\ UNCHANGED aux
    /\ UNCHANGED <<spec_dict, pc, parsed, collect_all, issues, dirls, origin,
                   calls, listed>>

\* a loop body without the "expected file, found directory" test
ChildIssue_no_type(child, st) ==
    IF child.kind = "file"
    THEN IF st = "none" THEN (IF child.optional THEN "" ELSE "MISSING_FILE")
         ELSE ""
    ELSE "SPEC_ERROR"

\* a loop body that lets a directory stand in for an optional file
ChildIssue_optional_any(child, st) ==
    IF child.kind = "file"
    THEN IF child.optional THEN ""
         ELSE IF st = "none" THEN "MISSING_FILE"
         ELSE IF st = "dir" THEN "TYPE_MISMATCH"
         ELSE ""
    ELSE "SPEC_ERROR"

\* the issue the loop body raises for a child that is not a DirNode, seen as st
ChildIssue(child, st) ==
    IF child.kind = "file"
    THEN IF st = "none" THEN (IF child.optional THEN "" ELSE "MISSING_FILE")
         ELSE IF st = "dir" THEN "TYPE_MISMATCH"
         ELSE ""
    ELSE "SPEC_ERROR"

\* "for child in node.children", a child that is not a DirNode
CheckChild ==
    /\ pc = "walk" /\ Top.at = "children" /\ Top.i <= Len(Top.node.children)
    /\ LET child == Top.node.children[Top.i]
           child_path == Join(Top.path, child.name)
           next == [Top EXCEPT !.i = Top.i + 1]
       IN  /\ child.kind # "dir"
           /\ \E st \in Observe(child_path) :
                /\ fs' = IF child.kind = "file" THEN Seen(child_path, st) ELSE fs
                /\ IF ChildIssue(child, st) = ""
                   THEN /\ stack' = SetTop(next)
                        /\ UNCHANGED <<pc, issues, origin>>
                   ELSE /\ issues' = add_issue(child_path, ChildIssue(child, st))
                        /\ origin' = Append(origin, Top.idx \o <<Top.i>>)
                        /\ IF StopNow THEN Return
                           ELSE stack' = SetTop(next) /\ pc' = "walk"
    /\ UNCHANGED aux
    /\ UNCHANGED <<spec_dict, parsed, collect_all, dirls, calls, listed>>

\* a recursive call that hands down the global settings
ChildInherited_globals(f) == parsed.val.globals

\* "inherited=GlobalSettings(allow_dirs, allow_files)": what frame f hands down
ChildInherited(f) == GlobalSettings(f.allow_dirs, f.allow_files)

\* a loop that puts off the recursive call until the directory is done
Descend_deferred ==
    /\ pc = "walk" /\ Top.at = "children" /\ Top.i <= Len(Top.node.children)
    /\ LET child == Top.node.children[Top.i]
           child_path == Join(Top.path, child.name)
           idx == Top.idx \o <<Top.i>>
       IN  /\ child.kind = "dir"
           /\ stack' = Pop \o
                        <<Frame(child, idx, child_path, ChildInherited(Top)),
                          [Top EXCEPT !.i = Top.i + 1]>>
           /\ calls' = Append(calls, idx)
    /\ UNCHANGED aux
    /\ UNCHANGED <<spec_dict, pc, parsed, collect_all, issues, fs, dirls,
                   origin, listed>>

\* "for child in node.children", a DirNode: the recursive validate_dir call,
\* after which the loop goes on with the next child
Descend ==
    /\ pc = "walk" /\ Top.at = "children" /\ Top.i <= Len(Top.node.children)
    /\ LET child == Top.node.children[Top.i]
           child_path == Join(Top.path, child.name)
           idx == Top.idx \o <<Top.i>>
       IN  /\ child.kind = "dir"
           /\ stack' = Append(SetTop([Top EXCEPT !.i = Top.i + 1]),
                              Frame(child, idx, child_path, ChildInherited(Top)))
           /\ calls' = Append(calls, idx)
    /\ UNCHANGED aux
    /\ UNCHANGED <<spec_dict, pc, parsed, collect_all, issues, fs, dirls,
                   origin, listed>>

\* a listing whose PermissionError nothing catches
ListDir_uncaught ==
    /\ pc = "walk" /\ Top.at = "children" /\ Top.i > Len(Top.node.children)
    /\ \E out \in ListOutcomes(Top.path) :
         /\ dirls' = IF Top.path \in DOMAIN dirls THEN dirls
                     ELSE (Top.path :> out) @@ dirls
         /\ listed' = Append(listed, Top.idx)
         /\ IF out.res = "ok"
            THEN /\ fs' = SeenAll(Top.path, out.content)
                 /\ stack' = SetTop([Top EXCEPT !.at = "scan",
                                                !.entries = out.entries])
                 /\ UNCHANGED <<pc, issues, origin>>
            ELSE /\ pc' = "raised"
                 /\ stack' = <<>>
                 /\ UNCHANGED <<issues, origin, fs>>
    /\ UNCHANGED aux
    /\ UNCHANGED <<spec_dict, parsed, collect_all, calls>>

\* "entries = list(path.iterdir())" after the loop over the children
ListDir ==
    /\ pc = "walk" /\ Top.at = "children" /\ Top.i > Len(Top.node.children)
    /\ \E out \in ListOutcomes(Top.path) :
         /\ dirls' = IF Top.path \in DOMAIN dirls THEN dirls
                     ELSE (Top.path :> out) @@ dirls
         /\ listed' = Append(listed, Top.idx)
         /\ IF out.res = "ok"
            THEN /\ fs' = SeenAll(Top.path, out.content)
                 /\ stack' = SetTop([Top EXCEPT !.at = "scan",
                                                !.entries = out.entries])
                 /\ UNCHANGED <<pc, issues, origin>>
            ELSE IF out.res = "PermissionError"
            THEN /\ issues' = add_issue(Top.path, "PERMISSION")
                 /\ origin' = Append(origin, Top.idx)
                 /\ IF StopNow THEN Return
                    ELSE /\ stack' = SetTop([Top EXCEPT !.at = "scan",
                                                        !.entries = <<>>])
                         /\ pc' = "walk"
                 /\ UNCHANGED fs
            ELSE \* any other OSError is not caught: validate_tree raises
                 /\ pc' = "raised"
                 /\ stack' = <<>>
                 /\ UNCHANGED <<issues, origin, fs>>
    /\ UNCHANGED aux
    /\ UNCHANGED <<spec_dict, parsed, collect_all, calls>>

\* a scan that judges directories by allow_files and files by allow_dirs
EntryIssue_crossed(f, name, st) ==
    IF name \in DOMAIN expected_by_name(f.node) THEN ""
    ELSE IF st = "dir" THEN (IF ~f.allow_files THEN "UNEXPECTED_DIR" ELSE "")
    ELSE (IF ~f.allow_dirs THEN "UNEXPECTED_FILE" ELSE "")

\* a scan that exempts a declared name only when the entry has the declared type
EntryIssue_typed(f, name, st) ==
    IF name \in DOMAIN expected_by_name(f.node)
       /\ expected_by_name(f.node)[name].kind = st
    THEN ""
    ELSE IF st = "dir" THEN (IF ~f.allow_dirs THEN "UNEXPECTED_DIR" ELSE "")
    ELSE (IF ~f.allow_files THEN "UNEXPECTED_FILE" ELSE "")

\* the issue the scan raises for an entry of the listing
EntryIssue(f, name, st) ==
    IF name \in DOMAIN expected_by_name(f.node) THEN ""
    ELSE IF st = "dir" THEN (IF ~f.allow_dirs THEN "UNEXPECTED_DIR" ELSE "")
    ELSE (IF ~f.allow_files THEN "UNEXPECTED_FILE" ELSE "")

\* a scan that stays on an entry it has nothing to say about
ScanEntry_stuck ==
    /\ pc = "walk" /\ Top.at = "scan" /\ Top.entries # <<>>
    /\ LET name == Head(Top.entries)
           entry == Top.path \o <<name>>
           code == EntryIssue(Top, name, fs[entry])
           next == [Top EXCEPT !.entries = Tail(Top.entries)]
       IN  IF code = ""
           THEN UNCHANGED <<stack, pc, issues, origin>>
           ELSE /\ issues' = add_issue(entry, code)
                /\ origin' = Append(origin, Top.idx)
                /\ IF StopNow THEN Return ELSE stack' = SetTop(next) /\ pc' = "walk"
    /\ UNCHANGED aux
    /\ UNCHANGED <<spec_dict, parsed, collect_all, fs, dirls, calls, listed>>

\* a scan that walks into every directory it finds
ScanEntry_descending ==
    /\ pc = "walk" /\ Top.at = "scan" /\ Top.entries # <<>>
    /\ LET name == Head(Top.entries)
           entry == Top.path \o <<name>>
           code == EntryIssue(Top, name, fs[entry])
           next == [Top EXCEPT !.entries = Tail(Top.entries)]
           into == Frame(DirNode(name, FALSE, Unset, Unset, <<>>), Top.idx,
                         entry, ChildInherited(Top))
           after == IF fs[entry] = "dir"
                       /\ name \notin DOMAIN expected_by_name(Top.node)
                    THEN Append(SetTop(next), into)
                    ELSE SetTop(next)
       IN  IF code = ""
           THEN /\ stack' = after
                /\ UNCHANGED <<pc, issues, origin>>
           ELSE /\ issues' = add_issue(entry, code)
                /\ origin' = Append(origin, Top.idx)
                /\ IF StopNow THEN Return ELSE stack' = after /\ pc' = "walk"
    /\ UNCHANGED aux
    /\ UNCHANGED <<spec_dict, parsed, collect_all, fs, dirls, calls, listed>>

\* "for entry in entries": one entry
ScanEntry ==
    /\ pc = "walk" /\ Top.at = "scan" /\ Top.entries # <<>>
    /\ LET name == Head(Top.entries)
           entry == Top.path \o <<name>>
           code == EntryIssue(Top, name, fs[entry])
           next == [Top EXCEPT !.entries = Tail(Top.entries)]
       IN  IF code = ""
           THEN /\ stack' = SetTop(next)
                /\ UNCHANGED <<pc, issues, origin>>
           ELSE /\ issues' = add_issue(entry, code)
                /\ origin' = Append(origin, Top.idx)
                /\ IF StopNow THEN Return ELSE stack' = SetTop(next) /\ pc' = "walk"
    /\ UNCHANGED aux
    /\ UNCHANGED <<spec_dict, parsed, collect_all, fs, dirls, calls, listed>>

\* the end of validate_dir: the entries are exhausted
ScanDone ==
    /\ pc = "walk" /\ Top.at = "scan" /\ Top.entries = <<>>
    /\ Return
    /\ UNCHANGED aux
    /\ UNCHANGED <<spec_dict, parsed, collect_all, issues, fs, dirls, origin,
                   calls, listed>>

\* this call repeats an earlier one that returned: every path it asks for
\* has answered before
Rerun == other # <<>> /\ other.kind = "first"

\* the path whose exists() or is_dir() the running call asks for next, if any
StatPath ==
    IF Top.at = "enter" THEN <<Top.path>>
    ELSE IF Top.at = "children"
    THEN (IF Top.i <= Len(Top.node.children)
             /\ Top.node.children[Top.i].kind = "file"
          THEN <<Join(Top.path, Top.node.children[Top.i].name)>>
          ELSE <<>>)
    ELSE (IF Top.entries # <<>>
             /\ Head(Top.entries) \notin DOMAIN expected_by_name(Top.node)
          THEN <<Top.path \o <<Head(Top.entries)>>>>
          ELSE <<>>)

\* exists() or is_dir() raises (PermissionError on a path that cannot be
\* searched, any other OSError pathlib does not ignore): nothing catches it
StatRaises ==
    /\ pc = "walk"
    /\ ~Rerun
    /\ StatPath # <<>>
    /\ Top.at = "scan" \/ StatPath[1] \notin DOMAIN fs
    /\ pc' = "raised"
    /\ stack' = <<>>
    /\ UNCHANGED aux
    /\ UNCHANGED <<spec_dict, parsed, collect_all, issues, fs, dirls, origin,
                   calls, listed>>

Next ==
    \/ ParseSpec
    \/ ValidateTree
    \/ DirMissing
    \/ DirNotDir
    \/ DirEnter
    \/ CheckChild
    \/ Descend
    \/ ListDir
    \/ ScanEntry
    \/ ScanDone
    \/ StatRaises

Spec == Init /\ [][Next]_vars

(***************************************************************************)
(* Reading a document and a parsed tree by position.                       *)
(***************************************************************************)
Range(seq) == {seq[k] : k \in DOMAIN seq}

IsList(d, key) == key \in DOMAIN d /\ IsInstance(d[key], "list")

\* every item of a structure or children list, at any depth
RECURSIVE ItemsOf(_)
ItemsOf(items) ==
    UNION {{items[i]} \cup
           (IF IsInstance(items[i], "dict") /\ IsList(items[i].v, "children")
            THEN ItemsOf(items[i].v["children"].v)
            ELSE {}) : i \in DOMAIN items}

TopIsMapping == IsInstance(spec_dict, "dict")
StructureIsList == TopIsMapping /\ IsList(spec_dict.v, "structure")

\* the node mappings of the document
NodeMappings ==
    IF StructureIsList
    THEN {x.v : x \in {y \in ItemsOf(spec_dict.v["structure"].v) :
                         IsInstance(y, "dict")}}
    ELSE {}

\* the node mappings nested in a children list
NestedMappings ==
    {n \in NodeMappings :
       \E m \in NodeMappings :
          IsList(m, "children") /\ Dict(n) \in Range(m["children"].v)}

NonBool(d, key) == key \in DOMAIN d /\ ~IsInstance(d[key], "bool")
BadName(d) ==
    "name" \notin DOMAIN d \/ ~IsInstance(d["name"], "str") \/ d["name"].v = ""
BadType(d) ==
    "type" \notin DOMAIN d \/ d["type"] \notin {Str("dir"), Str("file")}
IsFileMapping(d) == "type" \in DOMAIN d /\ d["type"] = Str("file")
IsDirMapping(d) == "type" \in DOMAIN d /\ d["type"] = Str("dir")
DirOnlyKeys == {"children", "allow_extra_dirs", "allow_extra_files"}

Parsed == pc # "start"
Root == parsed.val.root
Globals == parsed.val.globals

\* every node of a parsed tree below node
RECURSIVE NodesUnder(_)
NodesUnder(node) ==
    IF node.kind # "dir" THEN {}
    ELSE UNION {{node.children[i]} \cup NodesUnder(node.children[i]) :
                  i \in DOMAIN node.children}

(***************************************************************************)
(* C7 as claimed: parse_spec fails with SpecError whenever a boolean-typed  *)
(* field (top-level allow_extra_dirs / allow_extra_files; optional,         *)
(* allow_extra_dirs, allow_extra_files of any node) holds a non-boolean.    *)
(* The top-level fields are coerced with bool() instead, so this fails.     *)
(***************************************************************************)
NonBoolTop ==
    TopIsMapping /\ (NonBool(spec_dict.v, "allow_extra_dirs")
                     \/ NonBool(spec_dict.v, "allow_extra_files"))
NonBoolNode ==
    \E d \in NodeMappings :
       NonBool(d, "optional") \/ NonBool(d, "allow_extra_dirs")
       \/ NonBool(d, "allow_extra_files")

C7_NonBoolRejected ==
    (Parsed /\ (NonBoolTop \/ NonBoolNode)) => pc = "spec_error"

(***************************************************************************)
(* C8: parse_spec fails with SpecError, and returns no tree, when the       *)
(* top-level value is not a mapping, structure is missing or not a list, or *)
(* a node mapping at any depth lacks type or name, has an empty or          *)
(* non-string name, or a type other than "dir" and "file".                  *)
(***************************************************************************)
Malformed ==
    \/ ~TopIsMapping
    \/ ~StructureIsList
    \/ \E d \in NodeMappings : BadName(d) \/ BadType(d)

C8_MalformedRejected ==
    (Parsed /\ Malformed) =>
        /\ pc = "spec_error"
        /\ ~parsed.ok
        /\ "val" \notin DOMAIN parsed
        /\ stack = <<>> /\ issues = <<>>

\* a nested node mapping of unsupported type, under sound parents, was rejected
C8_Witness ==
    /\ pc = "spec_error"
    /\ StructureIsList
    /\ \E d \in NestedMappings : ~BadName(d) /\ BadType(d)
    /\ \A d \in NodeMappings \ NestedMappings : ~BadName(d) /\ ~BadType(d)

(***************************************************************************)
(* C9: parse_spec fails with SpecError for every file-typed node mapping,   *)
(* at any depth, that carries children, allow_extra_dirs or                 *)
(* allow_extra_files; every FileNode of a returned tree has only kind, name *)
(* and optional.                                                            *)
(***************************************************************************)
FileWithDirKeys ==
    \E d \in NodeMappings : IsFileMapping(d) /\ DOMAIN d \cap DirOnlyKeys # {}

C9_FileNodesArePlain ==
    Parsed =>
        /\ FileWithDirKeys => pc = "spec_error"
        /\ parsed.ok =>
             \A n \in NodesUnder(Root) :
                n.kind = "file" => DOMAIN n = {"kind", "name", "optional"}

\* a nested file mapping that sets allow_extra_files to a boolean was rejected
C9_Witness ==
    /\ pc = "spec_error"
    /\ \E d \in NestedMappings :
          /\ IsFileMapping(d) /\ ~BadName(d)
          /\ DOMAIN d \cap DirOnlyKeys = {"allow_extra_files"}
          /\ ~NonBool(d, "allow_extra_files")

(***************************************************************************)
(* C10: for every dir node of the input, parse_spec stores allow_extra_dirs *)
(* and allow_extra_files as unset exactly when the key is absent and as the *)
(* given boolean when present; children absent or null gives an empty       *)
(* children list; the children keep the input order.                        *)
(***************************************************************************)
KeptOverride(d, key, stored) ==
    IF key \in DOMAIN d THEN stored = Some(d[key].v) ELSE stored = Unset

RECURSIVE KeptList(_, _)
KeptNode(d, node) ==
    /\ node.name = d["name"].v
    /\ node.kind = d["type"].v
    /\ IsDirMapping(d) =>
         /\ KeptOverride(d, "allow_extra_dirs", node.allow_extra_dirs)
         /\ KeptOverride(d, "allow_extra_files", node.allow_extra_files)
         /\ IF IsList(d, "children")
            THEN KeptList(d["children"].v, node.children)
            ELSE node.children = <<>>
KeptList(items, nodes) ==
    /\ Len(items) = Len(nodes)
    /\ \A i \in DOMAIN items : KeptNode(items[i].v, nodes[i])

C10_DirFieldsKept ==
    (Parsed /\ parsed.ok) => KeptList(spec_dict.v["structure"].v, Root.children)

\* an explicit false beside an absent key and a null children, before a sibling
C10_Witness ==
    /\ Parsed /\ parsed.ok
    /\ Len(Root.children) = 2
    /\ Root.children[1].kind = "dir"
    /\ Root.children[1].allow_extra_dirs = Some(FALSE)
    /\ Root.children[1].allow_extra_files = Unset
    /\ Root.children[1].children = <<>>
    /\ Root.children[2].name = "b"
    /\ \E d \in NodeMappings : "children" \in DOMAIN d /\ d["children"] = Null

(***************************************************************************)
(* Reading the walk by declaration.  A declaration is named by its index   *)
(* path: the child positions that lead to it from the synthetic root <<>>. *)
(***************************************************************************)
RECURSIVE Sub(_, _)
Sub(node, idx) ==
    IF idx = <<>> THEN node ELSE Sub(node.children[Head(idx)], Tail(idx))
NodeAt(idx) == Sub(Root, idx)

RECURSIVE PathFrom(_, _, _)
PathFrom(node, path, idx) ==
    IF idx = <<>> THEN path
    ELSE LET child == node.children[Head(idx)]
         IN  PathFrom(child, Join(path, child.name), Tail(idx))
PathOf(idx) == PathFrom(Root, target_root, idx)

RECURSIVE IdxUnder(_)
IdxUnder(node) ==
    IF node.kind # "dir" THEN {}
    ELSE UNION {{<<i>>} \cup {<<i>> \o j : j \in IdxUnder(node.children[i])} :
                  i \in DOMAIN node.children}
Decls == {<<>>} \cup IdxUnder(Root)

Parent(idx) == SubSeq(idx, 1, Len(idx) - 1)
Prefixes(idx) == {SubSeq(idx, 1, k) : k \in 0..Len(idx)}

\* the declaration is a DirNode and it and all its ancestors exist as directories
Visited(idx) ==
    \A q \in Prefixes(idx) :
       /\ NodeAt(q).kind = "dir"
       /\ PathOf(q) \in DOMAIN fs
       /\ fs[PathOf(q)] = "dir"

\* the declaration is the root or a child of a visited directory
Reached(idx) == idx = <<>> \/ Visited(Parent(idx))

\* the nearest allow_extra_* set on the declaration or above it, else the global
NearestSet(idx, key) ==
    {q \in Prefixes(idx) : NodeAt(q)[key] # Unset}
Nearest(idx, key) ==
    IF NearestSet(idx, key) = {} THEN Globals[key]
    ELSE LET q == CHOOSE q \in NearestSet(idx, key) :
                     \A r \in NearestSet(idx, key) : Len(r) <= Len(q)
         IN  NodeAt(q)[key][1]

DeclaredNames(idx) == {NodeAt(idx).children[i].name : i \in DOMAIN NodeAt(idx).children}
Listable(idx) ==
    PathOf(idx) \in DOMAIN dirls /\ dirls[PathOf(idx)].res = "ok"
\* the undeclared entries of a listed directory
Extras(idx) ==
    {n \in Names : fs[PathOf(idx) \o <<n>>] # "none" /\ n \notin DeclaredNames(idx)}
Tolerated(idx, n) ==
    IF fs[PathOf(idx) \o <<n>>] = "dir"
    THEN Nearest(idx, "allow_extra_dirs")
    ELSE Nearest(idx, "allow_extra_files")
UnexpectedCode(idx, n) ==
    IF fs[PathOf(idx) \o <<n>>] = "dir" THEN "UNEXPECTED_DIR" ELSE "UNEXPECTED_FILE"

\* the declaration raised this issue
HasIssue(idx, p, code) ==
    \E k \in DOMAIN issues :
       issues[k] = Issue(rel(target_root, p), code) /\ origin[k] = idx
IssuesOf(idx) == {k \in DOMAIN issues : origin[k] = idx}

Returned == pc = "done"

(***************************************************************************)
(* C1 as claimed: with collect_all, validate_tree returns [] iff every      *)
(* required declared node is present with the correct type and no           *)
(* disallowed extra entry exists.  (The synthetic root counts as a required *)
(* node; nodes and entries count where the walk can reach them.)            *)
(***************************************************************************)
RequiredPresent ==
    \A idx \in Decls :
       (Reached(idx) /\ ~NodeAt(idx).optional) =>
           fs[PathOf(idx)] = NodeAt(idx).kind
NoDisallowedExtra ==
    \A idx \in Decls :
       (Visited(idx) /\ Listable(idx)) => \A n \in Extras(idx) : Tolerated(idx, n)

C1_EmptyIffRequiredPresent ==
    (Returned /\ collect_all) =>
        (issues = <<>> <=> (RequiredPresent /\ NoDisallowedExtra))

(***************************************************************************)
(* C1 amended: with collect_all, validate_tree returns [] iff every         *)
(* declared node the walk reaches (the root included) is present with the   *)
(* correct type or is optional and absent, every visited directory can be   *)
(* listed, and no disallowed extra entry exists in a visited directory.     *)
(***************************************************************************)
DeclaredAsFound ==
    \A idx \in Decls :
       Reached(idx) =>
           \/ fs[PathOf(idx)] = NodeAt(idx).kind
           \/ fs[PathOf(idx)] = "none" /\ NodeAt(idx).optional
AllListable == \A idx \in Decls : Visited(idx) => Listable(idx)

C1_EmptyIffConforms ==
    (Returned /\ collect_all) =>
        (issues = <<>> <=> (DeclaredAsFound /\ AllListable /\ NoDisallowedExtra))

\* a conforming vault: a declared directory with a declared child, both present,
\* and an undeclared entry that the policy tolerates
C1_Witness ==
    /\ Returned /\ collect_all /\ issues = <<>>
    /\ <<1, 1>> \in Decls
    /\ Visited(<<1>>)
    /\ fs[PathOf(<<1, 1>>)] # "none"
    /\ \E idx \in Decls : Visited(idx) /\ Extras(idx) # {}

(***************************************************************************)
(* C2 as claimed: with collect_all false the returned list holds at most    *)
(* one issue (nothing is added after the first one).  The recursive call    *)
(* does not report that it stopped, so the caller's loop goes on.           *)
(***************************************************************************)
C2_AtMostOneIssue == ~collect_all => Len(issues) <= 1

(***************************************************************************)
(* C3: with collect_all, every applicable issue is collected: each reached  *)
(* declaration was checked and its absence or wrong type reported, each     *)
(* visited directory was listed and its listing failure or disallowed       *)
(* entries reported, whatever was reported before.                          *)
(***************************************************************************)
MissingCode(idx) == IF NodeAt(idx).kind = "dir" THEN "MISSING_DIR" ELSE "MISSING_FILE"

DeclarationReported(idx) ==
    /\ PathOf(idx) \in DOMAIN fs
    /\ (fs[PathOf(idx)] = "none" /\ ~NodeAt(idx).optional)
          => HasIssue(idx, PathOf(idx), MissingCode(idx))
    /\ fs[PathOf(idx)] \notin {"none", NodeAt(idx).kind}
          => HasIssue(idx, PathOf(idx), "TYPE_MISMATCH")
DirectoryReported(idx) ==
    /\ idx \in Range(listed)
    /\ PathOf(idx) \in DOMAIN dirls
    /\ dirls[PathOf(idx)].res = "PermissionError"
          => HasIssue(idx, PathOf(idx), "PERMISSION")
    /\ dirls[PathOf(idx)].res = "ok"
          => \A n \in Extras(idx) :
                ~Tolerated(idx, n)
                   => HasIssue(idx, PathOf(idx) \o <<n>>, UnexpectedCode(idx, n))

C3_AllCollected ==
    (Returned /\ collect_all) =>
        \A idx \in Decls :
           /\ Reached(idx) => DeclarationReported(idx)
           /\ Visited(idx) => DirectoryReported(idx)

\* an issue inside a subtree, then one of the subtree's directory, then one of
\* the enclosing directory's scan
C3_Witness ==
    /\ Returned /\ collect_all
    /\ Len(issues) = 3
    /\ origin = <<<<1, 1>>, <<1>>, <<>>>>
    /\ issues[1].code \in {"MISSING_FILE", "TYPE_MISMATCH"}
    /\ issues[3].code \in {"UNEXPECTED_DIR", "UNEXPECTED_FILE"}

(***************************************************************************)
(* C4: the effective (allow_dirs, allow_files) of a DirNode is its own      *)
(* override where set and otherwise its parent's effective value (globals   *)
(* for the root), so it is the nearest override on the way up from the      *)
(* node; UNEXPECTED_DIR / UNEXPECTED_FILE verdicts in a directory follow    *)
(* that value, which no sibling and no descendant can change.               *)
(***************************************************************************)
OwnOrInherited(f, key, inherited) ==
    IF f.node[key] # Unset THEN f.node[key][1] ELSE inherited

FramesInherit ==
    \A k \in DOMAIN stack :
       LET f == stack[k]
       IN  /\ f.allow_dirs =
                OwnOrInherited(f, "allow_extra_dirs",
                               IF k = 1 THEN Globals.allow_extra_dirs
                               ELSE stack[k - 1].allow_dirs)
           /\ f.allow_files =
                OwnOrInherited(f, "allow_extra_files",
                               IF k = 1 THEN Globals.allow_extra_files
                               ELSE stack[k - 1].allow_files)
           /\ f.allow_dirs = Nearest(f.idx, "allow_extra_dirs")
           /\ f.allow_files = Nearest(f.idx, "allow_extra_files")

VerdictsFollowNearest ==
    \A k \in DOMAIN issues :
       /\ issues[k].code = "UNEXPECTED_DIR"
             => ~Nearest(origin[k], "allow_extra_dirs")
       /\ issues[k].code = "UNEXPECTED_FILE"
             => ~Nearest(origin[k], "allow_extra_files")

ExtrasJudgedByNearest ==
    \A idx \in Decls :
       (Visited(idx) /\ Listable(idx)) =>
           \A n \in Extras(idx) :
              HasIssue(idx, PathOf(idx) \o <<n>>, UnexpectedCode(idx, n))
                 <=> ~Tolerated(idx, n)

C4_PolicyInherited ==
    /\ pc = "walk" => FramesInherit
    /\ VerdictsFollowNearest
    /\ (Returned /\ collect_all) => ExtrasJudgedByNearest

\* "false" on a directory over a global "true": its entry is reported, and the
\* undeclared directory beside it, in the parent, is not
C4_Witness ==
    /\ Returned /\ collect_all
    /\ Globals.allow_extra_dirs
    /\ <<1>> \in Decls
    /\ NodeAt(<<1>>).kind = "dir" /\ NodeAt(<<1>>).allow_extra_dirs = Some(FALSE)
    /\ \E k \in DOMAIN issues :
          issues[k].code = "UNEXPECTED_DIR" /\ origin[k] = <<1>>
    /\ IssuesOf(<<>>) = {}
    /\ \E n \in Extras(<<>>) : fs[target_root \o <<n>>] = "dir"

(***************************************************************************)
(* C5: a declared node with optional=true whose path does not exist gets no *)
(* MISSING_FILE and no MISSING_DIR, no other issue, and is not descended    *)
(* into.                                                                    *)
(***************************************************************************)
AbsentOptional(idx) ==
    /\ NodeAt(idx).optional
    /\ PathOf(idx) \in DOMAIN fs
    /\ fs[PathOf(idx)] = "none"

C5_OptionalAbsentSilent ==
    /\ \A k \in DOMAIN issues :
          issues[k].code \in {"MISSING_FILE", "MISSING_DIR"}
             => ~NodeAt(origin[k]).optional
    /\ (Parsed /\ parsed.ok) =>
          \A idx \in Decls :
             AbsentOptional(idx) =>
                /\ \A k \in DOMAIN issues : ~IsPrefix(idx, origin[k])
                /\ \A c \in Range(calls) : IsPrefix(idx, c) => c = idx
                /\ \A q \in DOMAIN fs : IsPrefix(PathOf(idx), q) => q = PathOf(idx)

\* an absent optional directory with a declared child, and an empty result
C5_Witness ==
    /\ Returned /\ issues = <<>>
    /\ <<1, 1>> \in Decls
    /\ AbsentOptional(<<1>>)
    /\ <<1>> \in Range(calls)

(***************************************************************************)
(* C6 as claimed: validate_tree emits no MISSING_DIR and no TYPE_MISMATCH   *)
(* for the root path itself, whatever target_root is.  The kick-off runs    *)
(* the same validate_dir on the root, which checks it.                      *)
(***************************************************************************)
C6_RootNeverChecked ==
    \A k \in DOMAIN issues :
       issues[k].path = rel(target_root, target_root)
          => issues[k].code \notin {"MISSING_DIR", "TYPE_MISMATCH"}

(***************************************************************************)
(* The specification file and its two loaders.  A file is missing, a       *)
(* directory, a regular file that cannot be opened ("denied", "ioerror"),  *)
(* one that is not UTF-8 ("garbled"), or a text; yaml.safe_load of a text  *)
(* raises YAMLError or returns a value, None for an empty document.        *)
(***************************************************************************)
SpecFile(st, yaml, data) == [st |-> st, yaml |-> yaml, data |-> data]
NoFile(st) == SpecFile(st, "none", Null)
TextFile(data) == SpecFile("text", "ok", data)
BadYaml == SpecFile("text", "error", Null)

\* an exception that is not a SpecError
Raise(cls) == [ok |-> FALSE, cls |-> cls]

\* a loader that hands on whatever yaml.safe_load returned
load_spec_unchecked(file) ==
    IF file.st \in {"missing", "dir"} THEN SpecError("Spec file not found")
    ELSE IF file.st = "denied" THEN Raise("PermissionError")
    ELSE IF file.st = "ioerror" THEN Raise("OSError")
    ELSE IF file.st = "garbled" THEN Raise("UnicodeDecodeError")
    ELSE IF file.yaml = "error" THEN SpecError("Invalid YAML")
    ELSE Ok(file.data)

\* struct_validator.load_spec
load_spec(file) ==
    IF file.st \in {"missing", "dir"} THEN SpecError("Spec file not found")
    ELSE IF file.st = "denied" THEN Raise("PermissionError")
    ELSE IF file.st = "ioerror" THEN Raise("OSError")
    ELSE IF file.st = "garbled" THEN Raise("UnicodeDecodeError")
    ELSE IF file.yaml = "error" THEN SpecError("Invalid YAML")
    ELSE IF IsInstance(file.data, "null") THEN SpecError("Spec file is empty")
    ELSE Ok(file.data)

\* struct_checker.load_spec_file: every exception is logged and raised again
load_spec_file(file) ==
    IF file.st = "missing" THEN Raise("FileNotFoundError")
    ELSE IF file.st = "dir" THEN Raise("OSError")
    ELSE IF file.st = "denied" THEN Raise("PermissionError")
    ELSE IF file.st = "ioerror" THEN Raise("OSError")
    ELSE IF file.st = "garbled" THEN Raise("UnicodeDecodeError")
    ELSE IF file.yaml = "error" THEN Raise("YAMLError")
    ELSE Ok(file.data)

(***************************************************************************)
(* The command-line run: cli.run, check_manager, struct_checker.           *)
(***************************************************************************)
EXIT_SUCCESS == 0
EXIT_VALIDATION_ERROR == 1
EXIT_USAGE_ERROR == 2

\* spec_path is <<>> for None, else <<file>>
LintContext(vault_path, spec_path) ==
    [vault_path |-> vault_path, spec_path |-> spec_path]

\* an except clause that catches only YAML errors
Caught_yaml_only(cls) == cls = "YAMLError"

\* "except (yaml.YAMLError, FileNotFoundError, PermissionError, OSError, IOError)"
Caught(cls) ==
    cls \in {"YAMLError", "FileNotFoundError", "PermissionError", "OSError"}

struct_checker(context) ==
    IF context.spec_path = <<>> THEN Ok(TRUE)
    ELSE LET spec == load_spec_file(context.spec_path[1])
         IN  IF spec.ok THEN Ok(TRUE)
             ELSE IF Caught(spec.cls) THEN Ok(FALSE)
             ELSE spec

\* the summary it prints is not modelled
check_manager(context) ==
    LET result == struct_checker(context)
    IN  result

\* the vault as run finds it: st is what the path is, ls what listing it does
Vault(st, ls) == [st |-> st, ls |-> ls]

validate_vault_path(vault) == vault.st = "dir" /\ vault.ls = "ok"

resolve_spec_file(spec_arg, file) ==
    IF spec_arg
    THEN (IF file.st = "missing" THEN <<>> ELSE <<file>>)
    ELSE (IF file.st # "missing" THEN <<file>> ELSE <<>>)

\* the exit code, or the exception run lets through
run(vault, spec_arg, file) ==
    IF ~validate_vault_path(vault) THEN Ok(EXIT_VALIDATION_ERROR)
    ELSE LET resolved_spec == resolve_spec_file(spec_arg, file)
             context == LintContext(target_root, resolved_spec)
             result == check_manager(context)
         IN  IF ~result.ok THEN result
             ELSE Ok(IF result.val THEN EXIT_SUCCESS ELSE EXIT_VALIDATION_ERROR)

(***************************************************************************)
(* Runs from the specification file: load_spec, parse_spec, validate_tree  *)
(* as the library is meant to be used, and then the command-line run (or a *)
(* direct check_manager call) on the same file and the same vault.         *)
(***************************************************************************)
RunDocuments ==
    {Document(FALSE, FALSE, <<Dict(RawNode("dir", "a"))>>),
     Document(FALSE, FALSE,
              <<Dict(RawNode("file", "a")),
                Dict([optional |-> Bool(TRUE)] @@ RawNode("dir", "b"))>>),
     Document(TRUE, TRUE, <<>>),
     Dict(<<>>),
     Dict([allow_extra_dirs |-> Str("yes"), structure |-> List(<<>>)]),
     Str("x")}

SpecFiles ==
    {NoFile(st) : st \in {"missing", "dir", "denied", "ioerror", "garbled"}}
    \cup {BadYaml, TextFile(Null)}
    \cup {TextFile(d) : d \in RunDocuments}

InitRun ==
    /\ spec_file \in SpecFiles
    /\ pc = "unloaded"
    /\ spec_dict = Null
    /\ parsed = SpecError("not parsed")
    /\ collect_all = TRUE
    /\ issues = <<>>
    /\ stack = <<>>
    /\ fs = <<>>
    /\ dirls = <<>>
    /\ origin = <<>>
    /\ calls = <<>>
    /\ listed = <<>>
    /\ other = <<>>
    /\ cli = <<>>
    /\ loaded = <<>>

\* spec_dict = load_spec(path)
LoadSpec ==
    /\ pc = "unloaded"
    /\ loaded' = load_spec(spec_file)
    /\ IF loaded'.ok
       THEN spec_dict' = loaded'.val /\ pc' = "start"
       ELSE pc' = "load_error" /\ UNCHANGED spec_dict
    /\ UNCHANGED <<parsed, collect_all, issues, stack, fs, dirls, origin,
                   calls, listed, other, cli, spec_file>>

Finished == pc \in {"load_error", "spec_error", "done", "raised"}

\* the vault as the file system shows it
Vaults ==
    UNION {{Vault(st, ls) :
              ls \in IF st = "dir"
                     THEN {o.res : o \in ListOutcomes(target_root)}
                     ELSE {"none"}} :
           st \in Observe(target_root)}

\* vaultlint <vault> [--spec <file>]
Run ==
    /\ Finished /\ cli = <<>>
    /\ \E vault \in Vaults, spec_arg \in BOOLEAN :
         LET spec_path == resolve_spec_file(spec_arg, spec_file)
             context == LintContext(target_root, spec_path)
             called == validate_vault_path(vault)
         IN  cli' = [entry |-> "run", vault |-> vault, spec_path |-> spec_path,
                     called |-> called,
                     struct |-> IF called THEN struct_checker(context) ELSE <<>>,
                     manager |-> IF called THEN check_manager(context) ELSE <<>>,
                     out |-> run(vault, spec_arg, spec_file)]
    /\ UNCHANGED <<spec_dict, pc, parsed, collect_all, issues, stack, fs, dirls,
                   origin, calls, listed, other, spec_file, loaded>>

\* check_manager(LintContext(vault_path, spec_path)) called directly
CheckManager ==
    /\ Finished /\ cli = <<>>
    /\ \E vault \in Vaults, spec_path \in {<<>>, <<spec_file>>} :
         LET context == LintContext(target_root, spec_path)
         IN  cli' = [entry |-> "check_manager", vault |-> vault,
                     spec_path |-> spec_path, called |-> TRUE,
                     struct |-> struct_checker(context),
                     manager |-> check_manager(context),
                     out |-> check_manager(context)]
    /\ UNCHANGED <<spec_dict, pc, parsed, collect_all, issues, stack, fs, dirls,
                   origin, calls, listed, other, spec_file, loaded>>

NextRun ==
    \/ LoadSpec
    \/ ParseSpec
    \/ ValidateTree
    \/ DirMissing
    \/ DirNotDir
    \/ DirEnter
    \/ CheckChild
    \/ Descend
    \/ ListDir
    \/ ScanEntry
    \/ ScanDone
    \/ StatRaises
    \/ Run
    \/ CheckManager

SpecRun == InitRun /\ [][NextRun]_vars

(***************************************************************************)
(* C11 as claimed: the command-line run exits 0 when the issue list is     *)
(* empty, 1 when validation found mismatches and 2 when loading or parsing *)
(* the specification fails.  The run never parses the specification and    *)
(* never validates the vault: it exits 0 whenever the file loads as YAML   *)
(* and 1 when it does not.  (Stated for a vault that is a directory and    *)
(* can be listed.)                                                         *)
(***************************************************************************)
RanCli == cli # <<>> /\ cli.entry = "run"
Exited(code) == cli.out.ok /\ cli.out.val = code
SpecFailed == pc \in {"load_error", "spec_error"}
Conforming == pc = "done" /\ issues = <<>>
NonConforming == pc = "done" /\ issues # <<>>

C11_ExitCodes ==
    (RanCli /\ validate_vault_path(cli.vault)) =>
        /\ SpecFailed => Exited(EXIT_USAGE_ERROR)
        /\ NonConforming => Exited(EXIT_VALIDATION_ERROR)
        /\ Conforming => Exited(EXIT_SUCCESS)

(***************************************************************************)
(* C12 as claimed: validate_tree never raises: every file system failure   *)
(* met during the walk ends up as an Issue of the returned list.  Only     *)
(* PermissionError from the directory listing is caught.                   *)
(***************************************************************************)
C12_NeverRaises == pc # "raised"

(***************************************************************************)
(* The same validation twice: after validate_tree returned it is called    *)
(* again with the same arguments on the same file system.                  *)
(***************************************************************************)
Revalidate ==
    /\ pc = "done" /\ other = <<>>
    /\ other' = [kind |-> "first", issues |-> issues, origin |-> origin]
    /\ issues' = NewIssueList
    /\ origin' = <<>>
    /\ stack' = <<Frame(parsed.val.root, <<>>, target_root, parsed.val.globals)>>
    /\ calls' = <<<<>>>>
    /\ listed' = <<>>
    /\ pc' = "walk"
    /\ UNCHANGED <<spec_dict, parsed, collect_all, fs, dirls, cli, spec_file,
                   loaded>>

NextTwice ==
    \/ ParseSpec
    \/ ValidateTree
    \/ DirMissing
    \/ DirNotDir
    \/ DirEnter
    \/ CheckChild
    \/ Descend
    \/ ListDir
    \/ ScanEntry
    \/ ScanDone
    \/ StatRaises
    \/ Revalidate

SpecTwice == Init /\ [][NextTwice]_vars

(***************************************************************************)
(* C13: validating the same (root_path, globals, spec) twice with no file  *)
(* system change in between yields identical issue lists: same codes, same *)
(* paths, same order.  (A directory lists its entries in the same order    *)
(* both times: the order belongs to the unchanged file system.)            *)
(***************************************************************************)
C13_SameListTwice ==
    (pc = "done" /\ Rerun) => issues = other.issues

\* two runs that each report three issues
C13_Witness ==
    /\ pc = "done" /\ Rerun
    /\ Len(issues) = 3 /\ Len(other.issues) = 3
    /\ \E k \in DOMAIN issues : issues[k].code \in {"UNEXPECTED_DIR", "UNEXPECTED_FILE"}

(***************************************************************************)
(* C14: every Issue carries the path of the offending entry relative to    *)
(* the validation root when that path lies under the root, and the path    *)
(* unchanged otherwise (a declared name that is an absolute path).         *)
(***************************************************************************)
\* the paths issue k can be about: the declaration that raised it, or an
\* entry of that directory
Offending(k) ==
    IF issues[k].code \in {"UNEXPECTED_DIR", "UNEXPECTED_FILE"}
    THEN {PathOf(origin[k]) \o <<n>> : n \in Names}
    ELSE {PathOf(origin[k])}

ReportedAs(p, reported) ==
    IF IsPrefix(target_root, p)
    THEN target_root \o reported = p
    ELSE reported = p

C14_PathsRelativeToRoot ==
    \A k \in DOMAIN issues :
       \E p \in Offending(k) : p \in DOMAIN fs /\ ReportedAs(p, issues[k].path)

\* one issue inside the vault and one about an absolute path outside it
C14_Witness ==
    /\ pc = "done"
    /\ \E j, k \in DOMAIN issues :
          /\ issues[j].path = <<"/x">>
          /\ issues[k].path # <<>> /\ issues[k].path[1] \in Names

(***************************************************************************)
(* C15: every Issue has a code of the fixed set, and for a tree produced   *)
(* by parse_spec (every node is a FileNode or a DirNode) the code          *)
(* SPEC_ERROR is never emitted.                                            *)
(***************************************************************************)
IssueCodes ==
    {"MISSING_DIR", "MISSING_FILE", "TYPE_MISMATCH", "UNEXPECTED_DIR",
     "UNEXPECTED_FILE", "PERMISSION", "SPEC_ERROR"}

C15_CodesFixed ==
    /\ \A k \in DOMAIN issues :
          issues[k].code \in IssueCodes /\ issues[k].code # "SPEC_ERROR"
    /\ (Parsed /\ parsed.ok) =>
          \A n \in NodesUnder(Root) : n.kind \in {"file", "dir"}

\* a list with three different codes, one of them for a declared file
C15_Witness ==
    /\ pc = "done" /\ Len(issues) = 3
    /\ Cardinality({issues[k].code : k \in DOMAIN issues}) = 3
    /\ \E k \in DOMAIN issues : NodeAt(origin[k]).kind = "file"

(***************************************************************************)
(* C16: load_spec signals three failures a caller can tell apart: file not *)
(* found (the path is missing or no regular file), content that is not     *)
(* YAML, and content that parses to nothing; each is a SpecError with a    *)
(* diagnostic of its own, and none of them returns data.                   *)
(***************************************************************************)
NotFound == spec_file.st \in {"missing", "dir"}
Unparseable == spec_file.st = "text" /\ spec_file.yaml = "error"
ParsedToNothing ==
    spec_file.st = "text" /\ spec_file.yaml = "ok"
       /\ IsInstance(spec_file.data, "null")
IsSpecError(r) == ~r.ok /\ "err" \in DOMAIN r

C16_LoadFailuresDistinct ==
    loaded # <<>> =>
        /\ NotFound <=>
              (IsSpecError(loaded) /\ loaded.err = "Spec file not found")
        /\ Unparseable <=>
              (IsSpecError(loaded) /\ loaded.err = "Invalid YAML")
        /\ ParsedToNothing <=>
              (IsSpecError(loaded) /\ loaded.err = "Spec file is empty")
        /\ loaded.ok =>
              /\ ~NotFound /\ ~Unparseable /\ ~ParsedToNothing
              /\ loaded.val = spec_file.data

\* an empty file was loaded: SpecError, and nothing is parsed afterwards
C16_Witness ==
    /\ ParsedToNothing
    /\ loaded # <<>> /\ ~loaded.ok
    /\ pc = "load_error"

(***************************************************************************)
(* C19: struct_checker returns True when the context has no spec_path and  *)
(* whenever the file loads as YAML, whatever the vault holds; it returns   *)
(* False exactly when loading raises a missing-file, permission, I/O or    *)
(* YAML error; check_manager returns that result unchanged and run maps    *)
(* True to exit code 0 and False to exit code 1.                           *)
(***************************************************************************)
Checked == cli # <<>> /\ cli.called
LoadsAsYaml(file) == file.st = "text" /\ file.yaml = "ok"
LoadFails(file) ==
    \/ file.st \in {"missing", "dir", "denied", "ioerror"}
    \/ file.st = "text" /\ file.yaml = "error"
Returns(r, b) == r.ok /\ r.val = b

Below(idx, d) == IsPrefix(idx, d) /\ d # idx
Pending(idx) == \E k \in DOMAIN stack : stack[k].idx = idx /\ stack[k].at = "enter"
FoundMissing(idx) ==
    /\ idx \in Range(calls) /\ ~Pending(idx)
    /\ NodeAt(idx).kind = "dir" /\ ~NodeAt(idx).optional
    /\ PathOf(idx) \in DOMAIN fs /\ fs[PathOf(idx)] = "none"
RaisedBy(idx) == {k \in DOMAIN origin : origin[k] = idx}

C20_MissingDirNoDescent ==
    (pc \in {"walk", "done", "raised"} /\ parsed.ok) =>
        \A idx \in Decls :
            FoundMissing(idx) =>
                /\ Cardinality(RaisedBy(idx)) = 1
                /\ \A k \in RaisedBy(idx) :
                      issues[k] = Issue(rel(target_root, PathOf(idx)), "MISSING_DIR")
                /\ \A k \in DOMAIN origin : ~Below(idx, origin[k])
                /\ \A d \in Range(calls) \cup Range(listed) : ~Below(idx, d)
                /\ idx \notin Range(listed)

\* a required directory with a required child is missing, and the walk is over
C20_Witness ==
    /\ pc = "done" /\ parsed.ok
    /\ \E idx \in Decls \ {<<>>} :
          /\ FoundMissing(idx)
          /\ NodeAt(idx).children # <<>>
          /\ ~NodeAt(idx).children[1].optional
          /\ issues # <<>>

(***************************************************************************)
(* C18: no step of validate_tree, in a first or in a repeated call,        *)
(* changes the specification document, the GlobalSettings or the tree      *)
(* (parse_spec of the document still gives the value the walk holds), nor  *)
(* the file system: what a path or a listing answered once, it answers     *)
(* again.  Within one call the issue list only grows at its end.           *)
(***************************************************************************)
InValidateTree == pc \in {"parsed", "walk", "done"}
SameAnswers(old, new) ==
    \A p \in DOMAIN old : p \in DOMAIN new /\ new[p] = old[p]
Extends(old, new) ==
    Len(old) <= Len(new) /\ SubSeq(new, 1, Len(old)) = old

C18_ValidateTreeFrame ==
    [][InValidateTree =>
          /\ spec_dict' = spec_dict
          /\ parsed' = parsed
          /\ parsed' = parse_spec(spec_dict')
          /\ SameAnswers(fs, fs')
          /\ SameAnswers(dirls, dirls')
          /\ pc = "walk" => Extends(issues, issues')]_vars

\* a repeated call is over: both calls reported issues, and listed a declared
\* directory that inherits its policy
C18_Witness ==
    /\ pc = "done" /\ Rerun
    /\ other.issues # <<>> /\ issues # <<>>
    /\ \E idx \in Range(listed) \ {<<>>} :
          /\ NodeAt(idx).allow_extra_dirs = Unset
          /\ PathOf(idx) \in DOMAIN dirls /\ dirls[PathOf(idx)].res = "ok"

(***************************************************************************)
(* validate_tree as a function: the list a call returns when it runs from  *)
(* its first line to its return with nothing else running.  env holds the  *)
(* collect_all flag and the answers of the file system; acc is the issue   *)
(* list so far.  A path whose answer env does not hold reads as "?".       *)
(***************************************************************************)
Env(ca, seen, listings) == [collect_all |-> ca, fs |-> seen, dirls |-> listings]
Stat(env, p) == IF p \in DOMAIN env.fs THEN env.fs[p] ELSE "?"
Add(acc, p, code) == Append(acc, Issue(rel(target_root, p), code))

\* "for entry in entries"
RECURSIVE scan_entries(_, _, _, _, _, _)
scan_entries(node, path, allow, env, entries, acc) ==
    IF entries = <<>> THEN acc
    ELSE LET name == Head(entries)
             entry == path \o <<name>>
             code == IF Stat(env, entry) = "dir"
                     THEN (IF ~allow.allow_extra_dirs THEN "UNEXPECTED_DIR" ELSE "")
                     ELSE (IF ~allow.allow_extra_files THEN "UNEXPECTED_FILE" ELSE "")
         IN  IF name \in {node.children[k].name : k \in DOMAIN node.children}
                \/ code = ""
             THEN scan_entries(node, path, allow, env, Tail(entries), acc)
             ELSE IF ~env.collect_all THEN Add(acc, entry, code)
             ELSE scan_entries(node, path, allow, env, Tail(entries),
                               Add(acc, entry, code))

\* "entries = list(path.iterdir())" and the scan
list_entries(node, path, allow, env, acc) ==
    IF path \notin DOMAIN env.dirls THEN Add(acc, path, "?")
    ELSE LET out == env.dirls[path]
         IN  IF out.res = "ok"
             THEN scan_entries(node, path, allow, env, out.entries, acc)
             ELSE IF out.res = "PermissionError"
             THEN Add(acc, path, "PERMISSION")
             ELSE Add(acc, path, "?")

RECURSIVE validate_dir(_, _, _, _, _)
RECURSIVE validate_children(_, _, _, _, _, _)

\* "for child in node.children", from child i on, then the listing
validate_children(node, path, allow, env, i, acc) ==
    IF i > Len(node.children) THEN list_entries(node, path, allow, env, acc)
    ELSE LET child == node.children[i]
             child_path == Join(path, child.name)
             st == Stat(env, child_path)
             code == IF child.kind = "file"
                     THEN (IF st = "none"
                           THEN (IF child.optional THEN "" ELSE "MISSING_FILE")
                           ELSE IF st = "dir" THEN "TYPE_MISMATCH"
                           ELSE IF st = "file" THEN "" ELSE "?")
                     ELSE "SPEC_ERROR"
         IN  IF child.kind = "dir"
             THEN validate_children(node, path, allow, env, i + 1,
                     validate_dir(child, child_path, allow, env, acc))
             ELSE IF code = ""
             THEN validate_children(node, path, allow, env, i + 1, acc)
             ELSE IF ~env.collect_all THEN Add(acc, child_path, code)
             ELSE validate_children(node, path, allow, env, i + 1,
                                    Add(acc, child_path, code))

validate_dir(node, path, inherited, env, acc) ==
    LET allow == GlobalSettings(effective_allow_dirs(node, inherited),
                                effective_allow_files(node, inherited))
        st == Stat(env, path)
    IN  IF st = "none"
        THEN (IF node.optional THEN acc ELSE Add(acc, path, "MISSING_DIR"))
        ELSE IF st = "file" THEN Add(acc, path, "TYPE_MISMATCH")
        ELSE IF st = "dir" THEN validate_children(node, path, allow, env, 1, acc)
        ELSE Add(acc, path, "?")

validate_tree(globals, root_spec, env) ==
    validate_dir(root_spec, target_root, globals, env, <<>>)

\* a call that ran alone returned what the function gives
AloneAsFunction ==
    pc = "done" =>
       issues = validate_tree(Globals, Root, Env(collect_all, fs, dirls))

(***************************************************************************)
(* Two validate_tree calls in two threads, on different specifications and *)
(* different roots.  One call runs at a time; "other" holds the locals of  *)
(* the call that waits, and the part of the file system under its root.    *)
(* A thread switch may come between any two steps.                         *)
(***************************************************************************)
ConcDocuments ==
    {Document(FALSE, FALSE, <<Dict(RawNode("dir", "a"))>>),
     Document(FALSE, FALSE,
              <<Dict(RawNode("file", "a")),
                Dict([optional |-> Bool(TRUE)] @@ RawNode("dir", "b"))>>)}

Ended == {"spec_error", "done", "raised"}

InitConc ==
    /\ spec_dict \in ConcDocuments
    /\ pc = "start"
    /\ parsed = SpecError("not parsed")
    /\ collect_all = TRUE
    /\ issues = <<>>
    /\ stack = <<>>
    /\ fs = <<>>
    /\ dirls = <<>>
    /\ origin = <<>>
    /\ calls = <<>>
    /\ listed = <<>>
    /\ \E d \in ConcDocuments \ {spec_dict} :
          other = [kind |-> "call", overlap |-> FALSE, spec_dict |-> d,
                   pc |-> "start", parsed |-> SpecError("not parsed"),
                   collect_all |-> TRUE, issues |-> <<>>, stack |-> <<>>,
                   fs |-> <<>>, dirls |-> <<>>, origin |-> <<>>,
                   calls |-> <<>>, listed |-> <<>>]
    /\ cli = <<>>
    /\ spec_file = <<>>
    /\ loaded = <<>>

\* one issue list for every call
LocalIssues_shared(saved) == issues

\* "issues: List[Issue] = []" is a local of validate_tree, and add_issue and
\* validate_dir are closures of the call: a call that resumes finds its list
\* as it left it
LocalIssues(saved) == saved.issues

\* the running thread is suspended and the waiting one resumes
Switch ==
    /\ other # <<>> /\ other.kind = "call"
    /\ other.pc \notin Ended
    /\ other' = [kind |-> "call",
                 overlap |-> other.overlap \/ (pc = "walk" /\ other.pc = "walk"),
                 spec_dict |-> spec_dict, pc |-> pc, parsed |-> parsed,
                 collect_all |-> collect_all, issues |-> issues,
                 stack |-> stack, fs |-> fs, dirls |-> dirls,
                 origin |-> origin, calls |-> calls, listed |-> listed]
    /\ spec_dict' = other.spec_dict
    /\ pc' = other.pc
    /\ parsed' = other.parsed
    /\ collect_all' = other.collect_all
    /\ issues' = LocalIssues(other)
    /\ stack' = other.stack
    /\ fs' = other.fs
    /\ dirls' = other.dirls
    /\ origin' = other.origin
    /\ calls' = other.calls
    /\ listed' = other.listed
    /\ UNCHANGED <<cli, spec_file, loaded>>

NextConc ==
    \/ ParseSpec
    \/ ValidateTree
    \/ DirMissing
    \/ DirNotDir
    \/ DirEnter
    \/ CheckChild
    \/ Descend
    \/ ListDir
    \/ ScanEntry
    \/ ScanDone
    \/ StatRaises
    \/ Switch

SpecConc == InitConc /\ [][NextConc]_vars

(***************************************************************************)
(* C17: under any interleaving of the steps of two validate_tree calls on  *)
(* different specifications and roots, each call that returns, returns     *)
(* the list it returns when it runs alone on its own specification and     *)
(* root: the same issues in the same order, none lost and none added.      *)
(***************************************************************************)
C17_ConcurrentCallsIndependent ==
    /\ pc = "done" =>
          issues = validate_tree(Globals, Root, Env(collect_all, fs, dirls))
    /\ (other # <<>> /\ other.kind = "call" /\ other.pc = "done") =>
          other.issues = validate_tree(other.parsed.val.globals,
                                       other.parsed.val.root,
                                       Env(other.collect_all, other.fs,
                                           other.dirls))

\* both calls have returned, after a switch while both were walking; each
\* list holds two issues or more and the lists differ
C17_Witness ==
    /\ other # <<>> /\ other.kind = "call" /\ other.overlap
    /\ pc = "done" /\ other.pc = "done"
    /\ Len(issues) >= 2 /\ Len(other.issues) >= 2
    /\ issues # other.issues

(***************************************************************************)
(* C21: once validate_dir has examined a DirNode, optional or not, whose   *)
(* path exists and is not a directory, the list holds exactly one issue    *)
(* raised by that node, TYPE_MISMATCH at its path; the walk never goes     *)
(* below it (no call, no listing, no issue for a declared descendant), and *)
(* the enclosing directory reports no UNEXPECTED_FILE for the entry.       *)
(***************************************************************************)
FoundNotDir(idx) ==
    /\ idx \in Range(calls) /\ ~Pending(idx)
    /\ NodeAt(idx).kind = "dir"
    /\ PathOf(idx) \in DOMAIN fs /\ fs[PathOf(idx)] = "file"

C21_NotDirNoDescent ==
    (pc \in {"walk", "done", "raised"} /\ parsed.ok) =>
        \A idx \in Decls :
            FoundNotDir(idx) =>
                /\ Cardinality(RaisedBy(idx)) = 1
                /\ \A k \in RaisedBy(idx) :
                      issues[k] = Issue(rel(target_root, PathOf(idx)), "TYPE_MISMATCH")
                /\ \A k \in DOMAIN origin : ~Below(idx, origin[k])
                /\ \A d \in Range(calls) \cup Range(listed) : ~Below(idx, d)
                /\ idx \notin Range(listed)
                /\ idx # <<>> =>
                      ~HasIssue(Parent(idx), PathOf(idx), "UNEXPECTED_FILE")

\* a file sits where an optional directory with a required child is declared;
\* the enclosing directory was listed, forbids extra files, and the walk is over
C21_Witness ==
    /\ pc = "done" /\ parsed.ok
    /\ \E idx \in Decls \ {<<>>} :
          /\ FoundNotDir(idx)
          /\ NodeAt(idx).optional
          /\ NodeAt(idx).children # <<>>
          /\ ~NodeAt(idx).children[1].optional
          /\ Parent(idx) \in Range(listed) /\ Listable(Parent(idx))
          /\ ~Nearest(Parent(idx), "allow_extra_files")

(***************************************************************************)
(* C22: for a declared FileNode child of an existing directory, once the   *)
(* loop has examined it, MISSING_FILE is reported iff its path does not    *)
(* exist and it is not optional, TYPE_MISMATCH iff its path is a           *)
(* directory, optional or not, and nothing when the path is a              *)
(* non-directory; a declaration never raises both, nor anything twice.     *)
(* With collect_all every FileNode child of a visited directory has been   *)
(* examined when validate_tree returns.                                    *)
(***************************************************************************)
FileDecls == {idx \in Decls : idx # <<>> /\ NodeAt(idx).kind = "file"}
FileVerdict(idx) ==
    LET p == PathOf(idx)
    IN  /\ p \in DOMAIN fs
        /\ HasIssue(idx, p, "MISSING_FILE")
              <=> (fs[p] = "none" /\ ~NodeAt(idx).optional)
        /\ HasIssue(idx, p, "TYPE_MISMATCH") <=> fs[p] = "dir"
        /\ fs[p] = "file" => RaisedBy(idx) = {}
        /\ Cardinality(RaisedBy(idx)) <= 1
        /\ \A k \in RaisedBy(idx) :
              /\ issues[k].path = rel(target_root, p)
              /\ issues[k].code \in {"MISSING_FILE", "TYPE_MISMATCH"}
\* the children of a running validate_dir that its loop has passed
Passed(f) ==
    {f.idx \o <<j>> : j \in {j \in DOMAIN f.node.children :
                               f.at = "scan" \/ j < f.i}}

IsDirEntry(idx, n) == fs[PathOf(idx) \o <<n>>] = "dir"
EntryVerdict(idx, n, allow_dirs, allow_files) ==
    LET entry == PathOf(idx) \o <<n>>
    IN  /\ HasIssue(idx, entry, "UNEXPECTED_DIR")
              <=> (IsDirEntry(idx, n) /\ ~allow_dirs)
        /\ HasIssue(idx, entry, "UNEXPECTED_FILE")
              <=> (~IsDirEntry(idx, n) /\ ~allow_files)
\* the entries a running scan has dealt with
Scanned(f) ==
    IF f.at = "scan" /\ f.path \in DOMAIN dirls /\ dirls[f.path].res = "ok"
    THEN LET all == dirls[f.path].entries
         IN  {all[k] : k \in 1..(Len(all) - Len(f.entries))}
    ELSE {}
UnexpectedCodes == {"UNEXPECTED_DIR", "UNEXPECTED_FILE"}

DirDecls == {idx \in Decls : NodeAt(idx).kind = "dir"}

C24_DeclaredNamesExempt ==
    (pc \in {"walk", "done", "raised"} /\ parsed.ok) =>
        \A idx \in DirDecls :
           \A n \in DeclaredNames(idx) :
              \A code \in UnexpectedCodes :
                 ~HasIssue(idx, PathOf(idx) \o <<n>>, code)

\* under a policy that forbids every extra, a directory sits where a file is
\* declared, or a file where a directory is: the listing showed the entry, the
\* scan is over, and the only issue at that path is the TYPE_MISMATCH
C24_Witness ==
    /\ Returned /\ collect_all
    /\ \E idx \in DirDecls :
          /\ Visited(idx) /\ Listable(idx)
          /\ ~Nearest(idx, "allow_extra_dirs")
          /\ ~Nearest(idx, "allow_extra_files")
          /\ \E i \in DOMAIN NodeAt(idx).children :
                LET child == NodeAt(idx).children[i]
                    p == PathOf(idx) \o <<child.name>>
                IN  /\ child.name \in Names
                    /\ fs[p] \notin {"none", child.kind}
                    /\ \A k \in DOMAIN issues :
                          issues[k].path = rel(target_root, p)
                             => issues[k].code = "TYPE_MISMATCH"
                    /\ \E k \in DOMAIN issues :
                          issues[k].path = rel(target_root, p)

(***************************************************************************)
(* C25: when the listing of a visited directory fails with access denial,  *)
(* that directory raises exactly one issue, PERMISSION at its path, and no *)
(* UNEXPECTED_DIR / UNEXPECTED_FILE; the issues its declared children      *)
(* raised stay in the list, before it; and with collect_all the walk goes  *)
(* on: when validate_tree returns, the siblings declared after it have     *)
(* been checked and the enclosing directory has been listed.               *)
(***************************************************************************)
Denied(idx) ==
    /\ idx \in Range(listed)
    /\ PathOf(idx) \in DOMAIN dirls
    /\ dirls[PathOf(idx)].res = "PermissionError"
ChildrenOf(idx) == {idx \o <<i>> : i \in DOMAIN NodeAt(idx).children}
LaterSiblings(idx) ==
    IF idx = <<>> THEN {}
    ELSE {d \in ChildrenOf(Parent(idx)) : d[Len(d)] > idx[Len(idx)]}

C25_PermissionDenied ==
    (pc \in {"walk", "done", "raised"} /\ parsed.ok) =>
        \A idx \in DirDecls :
           Denied(idx) =>
              /\ Cardinality(RaisedBy(idx)) = 1
              /\ \A k \in RaisedBy(idx) :
                    /\ issues[k] = Issue(rel(target_root, PathOf(idx)), "PERMISSION")
                    /\ \A j \in DOMAIN origin : Below(idx, origin[j]) => j < k
              /\ collect_all => \A d \in ChildrenOf(idx) : DeclarationReported(d)
              /\ (Returned /\ collect_all) =>
                    /\ \A d \in LaterSiblings(idx) :
                          /\ DeclarationReported(d)
                          /\ NodeAt(d).kind = "dir" => d \in Range(calls)
                    /\ idx # <<>> => Parent(idx) \in Range(listed)

\* a declared directory cannot be listed; the sibling declared after it is
\* reported next, and then the root, which cannot be listed either, keeps both
C25_Witness ==
    /\ Returned /\ collect_all
    /\ Len(issues) = 3
    /\ Denied(<<>>) /\ <<1>> \in DirDecls /\ Denied(<<1>>)
    /\ origin = <<<<1>>, <<2>>, <<>>>>
    /\ issues[1].code = "PERMISSION" /\ issues[3].code = "PERMISSION"

(***************************************************************************)
(* C26: the issues come in the order of the walk.  Of two issues, the one  *)
(* raised under an earlier declared child of a directory comes before the  *)
(* one raised under a later child, each child's whole subtree first, and   *)
(* both come before the PERMISSION or unexpected-entry issues of the       *)
(* directory itself; a directory's unexpected-entry issues follow the      *)
(* order of its listing.                                                   *)
(***************************************************************************)
\* a's issues come no later than b's: a is b, or lies below b, or lies under an
\* earlier child than b where their ways part
WalkOrder(a, b) ==
    \/ IsPrefix(b, a)
    \/ /\ ~IsPrefix(a, b)
       /\ LET m == CHOOSE m \in 1..Len(a) :
                      /\ m <= Len(b) /\ a[m] # b[m]
                      /\ \A r \in 1..(m - 1) : a[r] = b[r]
          IN  a[m] < b[m]
EntryPos(idx, path) ==
    LET all == dirls[PathOf(idx)].entries
    IN  CHOOSE k \in DOMAIN all :
           path = rel(target_root, PathOf(idx) \o <<all[k]>>)

C26_IssueOrder ==
    (pc \in {"walk", "done", "raised"} /\ parsed.ok) =>
        /\ Len(origin) = Len(issues)
        /\ \A j, k \in DOMAIN issues :
              j < k =>
                 /\ WalkOrder(origin[j], origin[k])
                 /\ (origin[j] = origin[k]
                     /\ issues[j].code \in UnexpectedCodes
                     /\ issues[k].code \in UnexpectedCodes) =>
                       EntryPos(origin[j], issues[j].path)
                          < EntryPos(origin[k], issues[k].path)

\* an unexpected entry inside the first declared directory, then an issue of the
\* declaration after it, then an issue of the root's own listing
C26_Witness ==
    /\ Returned /\ collect_all
    /\ \E j, k, l \in DOMAIN issues :
          /\ j < k /\ k < l
          /\ origin[j] = <<1>> /\ issues[j].code \in UnexpectedCodes
          /\ origin[k] = <<2>>
          /\ origin[l] = <<>>

(***************************************************************************)
(* C27 as claimed: when declared children of one DirNode share a name, the *)
(* last declaration wins: an earlier declaration of the name, and what is  *)
(* declared below it, contributes no issue.  The lookup map keeps the last *)
(* declaration, but the loop runs over node.children and validates every   *)
(* one of them, so this fails.                                             *)
(***************************************************************************)
\* a children list without the declarations that a later one of the same
\* name replaces
RECURSIVE LastOnly(_)
LastOnly(children) ==
    IF children = <<>> THEN <<>>
    ELSE LET ch == Head(children)
             rest == Tail(children)
             kept == IF ch.kind = "dir"
                     THEN [ch EXCEPT !.children = LastOnly(ch.children)]
                     ELSE ch
         IN  IF \E k \in DOMAIN rest : rest[k].name = ch.name
             THEN LastOnly(rest)
             ELSE <<kept>> \o LastOnly(rest)
HasDuplicate == LastOnly(Root.children) # Root.children

C27_LastDeclarationWins ==
    (Returned /\ collect_all /\ HasDuplicate) =>
        issues = validate_tree(Globals,
                               [Root EXCEPT !.children = LastOnly(Root.children)],
                               Env(collect_all, fs, dirls))

(***************************************************************************)
(* The program as it runs: a step that can be taken is taken.              *)
(***************************************************************************)
SpecFair == Init /\ [][Next]_vars /\ WF_vars(Next)

(***************************************************************************)
(* C28: validate_tree terminates, whatever the tree and the file system    *)
(* (a directory may hold itself again through a link): validate_dir is     *)
(* called at most once per DirNode of the tree, so there are never more    *)
(* frames than DirNodes, and each call lists its directory at most once.   *)
(***************************************************************************)
NoRepeat(seq) == \A j, k \in DOMAIN seq : seq[j] = seq[k] => j = k
BoundedWalk ==
    (pc \in {"walk", "done", "raised"} /\ parsed.ok) =>
        /\ NoRepeat(calls) /\ Range(calls) \subseteq DirDecls
        /\ Len(calls) <= Cardinality(DirDecls)
        /\ Len(stack) <= Len(calls)
        /\ NoRepeat([k \in DOMAIN stack |-> stack[k].idx])
        /\ NoRepeat(listed) /\ Range(listed) \subseteq Range(calls)

C28_Terminates == []BoundedWalk /\ <>(pc \in Ended)

\* the walk is over after it went down a directory that holds a directory of
\* its own name, as a link back to itself would show
C28_Witness ==
    /\ Returned
    /\ <<1, 1>> \in DirDecls
    /\ NodeAt(<<1, 1>>).name = NodeAt(<<1>>).name
    /\ Visited(<<1, 1>>)
    /\ <<1, 1>> \in Range(listed) /\ Listable(<<1, 1>>)
    /\ \E n \in Names : IsDirEntry(<<1, 1>>, n)

(***************************************************************************)
(* C29: validate_tree never goes into an undeclared directory.  For a      *)
(* directory entry that no declaration names, the directory that lists it  *)
(* raises at most one issue at it, UNEXPECTED_DIR and only when its policy *)
(* forbids it; nothing beneath the entry is ever asked for or listed, and  *)
(* no issue is reported at a path beneath it.                              *)
(***************************************************************************)
Beneath(p, q) == IsPrefix(p, q) /\ q # p
\* the directories found in the listing of idx that no declaration names
UndeclaredDirs(idx) ==
    {e \in {PathOf(idx) \o <<n>> : n \in {n \in Extras(idx) : IsDirEntry(idx, n)}} :
       \A d \in Decls : ~IsPrefix(e, PathOf(d))}
IssuesAt(idx, p) ==
    {k \in DOMAIN issues : origin[k] = idx /\ issues[k].path = rel(target_root, p)}

C29_NoDescentIntoUndeclared ==
    (pc \in {"walk", "done", "raised"} /\ parsed.ok) =>
        \A idx \in DirDecls :
           (Visited(idx) /\ Listable(idx)) =>
              \A e \in UndeclaredDirs(idx) :
                 /\ Cardinality(IssuesAt(idx, e)) <= 1
                 /\ \A k \in IssuesAt(idx, e) :
                       /\ issues[k].code = "UNEXPECTED_DIR"
                       /\ ~Nearest(idx, "allow_extra_dirs")
                 /\ \A q \in DOMAIN fs : ~Beneath(e, q)
                 /\ \A q \in DOMAIN dirls : ~IsPrefix(e, q)
                 /\ \A k \in DOMAIN issues :
                       ~Beneath(rel(target_root, e), issues[k].path)

\* the walk is over; it found an undeclared directory where extra directories
\* are forbidden and reported it, and another where they are allowed
C29_Witness ==
    /\ Returned /\ collect_all
    /\ \E idx \in DirDecls :
          /\ Visited(idx) /\ Listable(idx)
          /\ \E e \in UndeclaredDirs(idx) : IssuesAt(idx, e) # {}
    /\ \E idx \in DirDecls :
          /\ Visited(idx) /\ Listable(idx) /\ idx \in Range(listed)
          /\ \E e \in UndeclaredDirs(idx) : IssuesAt(idx, e) = {}

(***************************************************************************)
(* The same specification validated against the same file system in both   *)
(* modes: when a call has returned, validate_tree is called again with the *)
(* other value of collect_all.  "other" keeps what the first call returned.*)
(***************************************************************************)
ValidateOtherMode ==
    /\ pc = "done" /\ other = <<>>
    /\ other' = [kind |-> "mode", issues |-> issues, origin |-> origin,
                 collect_all |-> collect_all]
    /\ collect_all' = ~collect_all
    /\ issues' = NewIssueList
    /\ origin' = <<>>
    /\ stack' = <<Frame(parsed.val.root, <<>>, target_root, parsed.val.globals)>>
    /\ calls' = <<<<>>>>
    /\ listed' = <<>>
    /\ pc' = "walk"
    /\ UNCHANGED <<spec_dict, parsed, fs, dirls, cli, spec_file, loaded>>

NextModes ==
    \/ ParseSpec
    \/ ValidateTree
    \/ DirMissing
    \/ DirNotDir
    \/ DirEnter
    \/ CheckChild
    \/ Descend
    \/ ListDir
    \/ ScanEntry
    \/ ScanDone
    \/ StatRaises
    \/ ValidateOtherMode

SpecModes == Init /\ [][NextModes]_vars

(***************************************************************************)
(* C30: for the same specification and file system, the list returned with *)
(* collect_all false is a subsequence of the list returned with            *)
(* collect_all true, is empty exactly when that list is empty, and when    *)
(* not empty starts with the same issue.                                   *)
(***************************************************************************)
RECURSIVE IsSubseq(_, _)
IsSubseq(a, b) ==
    IF a = <<>> THEN TRUE
    ELSE IF b = <<>> THEN FALSE
    ELSE IF Head(a) = Head(b) THEN IsSubseq(Tail(a), Tail(b))
    ELSE IsSubseq(a, Tail(b))
BothModes == pc = "done" /\ other # <<>> /\ other.kind = "mode"
FirstOnly == IF collect_all THEN other.issues ELSE issues
Exhaustive == IF collect_all THEN issues ELSE other.issues

C30_FailFastRefinesExhaustive ==
    BothModes =>
        /\ IsSubseq(FirstOnly, Exhaustive)
        /\ FirstOnly = <<>> <=> Exhaustive = <<>>
        /\ FirstOnly # <<>> => FirstOnly[1] = Exhaustive[1]

\* both calls returned; the stop-at-first-issue list is shorter than the
\* exhaustive one and leaves out an issue between two it has
C30_Witness ==
    /\ BothModes
    /\ Len(FirstOnly) = 2 /\ Len(Exhaustive) = 3
    /\ FirstOnly[2] = Exhaustive[3]
    /\ Exhaustive[2] # Exhaustive[3]

=============================================================================
